---- MODULE Spec2Model ----
(***************************************************************************)
(* A model of src/card.py: the Card class with its validated properties    *)
(* card_type, suit and rank, and the enums CardTypes, CardSuitTypes and    *)
(* CardRankTypes.                                                          *)
(*                                                                         *)
(* A Python value is a record [cls, name]: its class and, for an enum      *)
(* member, the member's name (for a str or an int, its literal).  Two      *)
(* values are equal exactly when they are the same record, which is how    *)
(* Python compares the members of a plain Enum with each other and with    *)
(* strings, integers and None.                                             *)
(***************************************************************************)
EXTENDS Naturals, Sequences, FiniteSets

VARIABLES
    card,     \* the card object under consideration (NoCard: none was built)
    op,       \* the last operation called
    args,     \* the arguments of the last operation
    before,   \* the card as it was when the last operation was called
    result    \* what the last operation did: returned or raised

vars == <<card, op, args, before, result>>

----------------------------------------------------------------------------
(* Python values *)

Member(c, n) == [cls |-> c, name |-> n]
Str(s) == [cls |-> "str", name |-> s]
Int(s) == [cls |-> "int", name |-> s]
None == [cls |-> "NoneType", name |-> "None"]
\* an instance attribute that was never assigned
Unset == [cls |-> "unset", name |-> "unset"]

----------------------------------------------------------------------------
(* The enums: each maps its members' names to their values *)

CardTypes ==
    [STANDARD |-> "standard", JOKER |-> "joker", GUARANTEE |-> "guarantee"]

CardSuitTypes ==
    [HEART |-> "heart", CLUB |-> "club", SPADE |-> "spade", DIAMOND |-> "diamond"]

\* the value of a rank is its position: ACE = 1, ..., KING = 13
CardRankTypes ==
    << "ACE", "TWO", "THREE", "FOUR", "FIVE", "SIX", "SEVEN", "EIGHT", "NINE",
       "TEN", "JACK", "QUEEN", "KING" >>

STANDARD == Member("CardTypes", "STANDARD")
JOKER == Member("CardTypes", "JOKER")
GUARANTEE == Member("CardTypes", "GUARANTEE")

HEART == Member("CardSuitTypes", "HEART")
CLUB == Member("CardSuitTypes", "CLUB")
SPADE == Member("CardSuitTypes", "SPADE")
DIAMOND == Member("CardSuitTypes", "DIAMOND")

Rank(i) == Member("CardRankTypes", CardRankTypes[i])
ACE == Rank(1)
KING == Rank(Len(CardRankTypes))

\* member.value of a CardTypes or CardSuitTypes member, member.name of any
EnumValue(enum, m) == enum[m.name]
EnumName(m) == m.name

ALLOWED_CARD_TYPES == << GUARANTEE, JOKER, STANDARD >>
ALLOWED_SUIT_TYPES == << CLUB, DIAMOND, HEART, SPADE >>
ALLOWED_RANK_TYPES == [i \in DOMAIN CardRankTypes |-> Rank(i)]

\* Python's "val in list": some element of the list equals val
In(val, list) == \E i \in DOMAIN list : list[i] = val

----------------------------------------------------------------------------
(* The Card object and what a call on it does *)

\* an object of class Card before __init__ has assigned anything
Fresh == [card_type |-> Unset, suit |-> Unset, rank |-> Unset]
NoCard == Fresh

\* a call returns (exc = "None") or raises; self is the object afterwards
Return(self, ret) == [self |-> self, exc |-> "None", at |-> "", ret |-> ret]
Raise(self, at) == [self |-> self, exc |-> "ValueError", at |-> at, ret |-> ""]
Raised(r) == r.exc # "None"

\* the setter without its membership check
card_type_setter_unchecked(self, val) ==
    LET s1 == [self EXCEPT !.card_type = val]
    IN IF val # STANDARD
       THEN Return([s1 EXCEPT !.rank = None, !.suit = None], "")
       ELSE Return(s1, "")

\* the setter clearing the suit only, not the rank
card_type_setter_keeps_rank(self, val) ==
    IF ~In(val, ALLOWED_CARD_TYPES)
    THEN Raise(self, "card_type")
    ELSE LET s1 == [self EXCEPT !.card_type = val]
         IN IF val # STANDARD
            THEN Return([s1 EXCEPT !.suit = None], "")
            ELSE Return(s1, "")

\* the setter clearing suit and rank whatever the new type is
card_type_setter_always_clears(self, val) ==
    IF ~In(val, ALLOWED_CARD_TYPES)
    THEN Raise(self, "card_type")
    ELSE Return([self EXCEPT !.card_type = val, !.rank = None, !.suit = None], "")

card_type_setter(self, val) ==
    IF ~In(val, ALLOWED_CARD_TYPES)
    THEN Raise(self, "card_type")
    ELSE LET s1 == [self EXCEPT !.card_type = val]
         IN IF val # STANDARD
            THEN Return([s1 EXCEPT !.rank = None, !.suit = None], "")
            ELSE Return(s1, "")

\* the setter accepting None on a card that is not STANDARD
suit_setter_none_allowed(self, val) ==
    IF self.card_type = STANDARD /\ val = None
    THEN Raise(self, "suit")
    ELSE IF self.card_type # STANDARD /\ val # None
    THEN Raise(self, "suit")
    ELSE IF val # None /\ ~In(val, ALLOWED_SUIT_TYPES)
    THEN Raise(self, "suit")
    ELSE Return([self EXCEPT !.suit = val], "")

\* the setter assigning before its membership check
suit_setter_assigns_first(self, val) ==
    IF self.card_type = STANDARD /\ val = None
    THEN Raise(self, "suit")
    ELSE IF self.card_type # STANDARD /\ val # None
    THEN Raise(self, "suit")
    ELSE IF ~In(val, ALLOWED_SUIT_TYPES)
    THEN Raise([self EXCEPT !.suit = val], "suit")
    ELSE Return([self EXCEPT !.suit = val], "")

suit_setter(self, val) ==
    IF self.card_type = STANDARD /\ val = None
    THEN Raise(self, "suit")
    ELSE IF self.card_type # STANDARD /\ val # None
    THEN Raise(self, "suit")
    ELSE IF ~In(val, ALLOWED_SUIT_TYPES)
    THEN Raise(self, "suit")
    ELSE Return([self EXCEPT !.suit = val], "")

rank_setter(self, val) ==
    IF self.card_type = STANDARD /\ val = None
    THEN Raise(self, "rank")
    ELSE IF self.card_type # STANDARD /\ val # None
    THEN Raise(self, "rank")
    ELSE IF ~In(val, ALLOWED_RANK_TYPES)
    THEN Raise(self, "rank")
    ELSE Return([self EXCEPT !.rank = val], "")

\* the constructor assigning _rank directly, past the rank setter
__init__rank_unvalidated(suit, rank, card_type) ==
    LET r1 == card_type_setter(Fresh, card_type)
    IN IF Raised(r1) THEN r1
       ELSE LET r2 == suit_setter(r1.self, suit)
            IN IF Raised(r2) THEN r2
               ELSE Return([r2.self EXCEPT !.rank = rank], "")

__init__(suit, rank, card_type) ==
    LET r1 == card_type_setter(Fresh, card_type)
    IN IF Raised(r1) THEN r1
       ELSE LET r2 == suit_setter(r1.self, suit)
            IN IF Raised(r2) THEN r2
               ELSE rank_setter(r2.self, rank)

\* the rendering with the suit's name in place of its value
__str__suit_name(self) ==
    IF self.card_type = STANDARD
    THEN IF self.rank = None \/ self.suit = None
         THEN Raise(self, "__str__")
         ELSE Return(self, EnumName(self.rank) \o " of " \o EnumName(self.suit))
    ELSE Return(self, EnumValue(CardTypes, self.card_type))

__str__(self) ==
    IF self.card_type = STANDARD
    THEN IF self.rank = None \/ self.suit = None
         THEN Raise(self, "__str__")
         ELSE Return(self, EnumName(self.rank) \o " of "
                             \o EnumValue(CardSuitTypes, self.suit))
    ELSE Return(self, EnumValue(CardTypes, self.card_type))

----------------------------------------------------------------------------
(* The values a caller may pass *)

TypeInputs ==
    {STANDARD, JOKER, GUARANTEE, None, Str("joker"), Str("wild"), HEART}
SuitInputs ==
    {HEART, CLUB, SPADE, DIAMOND, None, Str("heart"), JOKER}
RankInputs ==
    {Rank(i) : i \in DOMAIN CardRankTypes}
        \cup {None, Int("1"), Int("14"), Str("ACE"), HEART}

----------------------------------------------------------------------------
(* The state machine: one card, and the calls made on it *)

Init ==
    /\ card = NoCard
    /\ op = "none"
    /\ args = << >>
    /\ before = NoCard
    /\ result = Return(NoCard, "")

\* Card(suit, rank, card_type): a failed constructor yields no card
Construct ==
    \E t \in TypeInputs, s \in SuitInputs, r \in RankInputs :
        LET res == __init__(s, r, t)
        IN /\ card' = IF Raised(res) THEN NoCard ELSE res.self
           /\ op' = "__init__"
           /\ args' = << t, s, r >>
           /\ before' = NoCard
           /\ result' = [res EXCEPT !.self = card']

Call(name, a, res) ==
    /\ card' = res.self
    /\ op' = name
    /\ args' = a
    /\ before' = card
    /\ result' = res

SetCardType ==
    /\ card # NoCard
    /\ \E v \in TypeInputs : Call("card_type", << v >>, card_type_setter(card, v))

SetSuit ==
    /\ card # NoCard
    /\ \E v \in SuitInputs : Call("suit", << v >>, suit_setter(card, v))

SetRank ==
    /\ card # NoCard
    /\ \E v \in RankInputs : Call("rank", << v >>, rank_setter(card, v))

ToDisplayString ==
    /\ card # NoCard
    /\ Call("__str__", << >>, __str__(card))

Next == Construct \/ SetCardType \/ SetSuit \/ SetRank \/ ToDisplayString

Spec == Init /\ [][Next]_vars

----------------------------------------------------------------------------
(* What the properties below read *)

Ok == result.exc = "None"
\* ValueError raised by one of the three setters
InvalidAttribute ==
    result.exc = "ValueError" /\ result.at \in {"card_type", "suit", "rank"}
\* ValueError raised by __str__
InvalidState == result.exc = "ValueError" /\ result.at = "__str__"

Suits == {HEART, CLUB, SPADE, DIAMOND}
Ranks == {Rank(i) : i \in DOMAIN CardRankTypes}
NonStandard == {JOKER, GUARANTEE}
StandardCard(s, r) == [card_type |-> STANDARD, suit |-> s, rank |-> r]
SpecialCard(t) == [card_type |-> t, suit |-> None, rank |-> None]

----------------------------------------------------------------------------
\* C1: in every state of a card reached by a successful constructor and any
\* setter calls, card_type is STANDARD exactly when suit and rank are both
\* members of their enums, and card_type is not STANDARD exactly when suit
\* and rank are both None.
C1_TypeDeterminesSuitAndRank ==
    card # NoCard =>
        /\ card.card_type = STANDARD <=> (card.suit \in Suits /\ card.rank \in Ranks)
        /\ card.card_type # STANDARD <=> (card.suit = None /\ card.rank = None)

\* C2: the constructor called with JOKER or GUARANTEE, suit and rank None,
\* succeeds, and rendering the card returns "joker" or "guarantee".
C2_SpecialCardConstructs ==
    /\ (op = "__init__" /\ args[1] \in NonStandard /\ args[2] = None /\ args[3] = None)
           => (Ok /\ card = SpecialCard(args[1]))
    /\ (op = "__str__" /\ before = SpecialCard(JOKER))
           => (Ok /\ result.ret = "joker")
    /\ (op = "__str__" /\ before = SpecialCard(GUARANTEE))
           => (Ok /\ result.ret = "guarantee")

\* C3: for every suit and rank, the constructor called with STANDARD, the
\* suit and the rank succeeds and stores exactly that suit and rank, and
\* rendering such a card returns the rank's name, " of ", the suit's value.
C3_StandardCardConstructsAndRenders ==
    /\ (op = "__init__" /\ args[1] = STANDARD /\ args[2] \in Suits /\ args[3] \in Ranks)
           => (Ok /\ card = StandardCard(args[2], args[3]))
    /\ (op = "__str__" /\ before.card_type = STANDARD
            /\ before.suit \in Suits /\ before.rank \in Ranks)
           => /\ Ok
              /\ result.ret
                   = before.rank.name \o " of " \o CardSuitTypes[before.suit.name]
    /\ (op = "__str__" /\ before = StandardCard(HEART, ACE))
           => result.ret = "ACE of heart"
    /\ (op = "__str__" /\ before = StandardCard(SPADE, KING))
           => result.ret = "KING of spade"

C3_Witness ==
    /\ op = "__str__"
    /\ before = StandardCard(SPADE, KING)
    /\ result.ret = "KING of spade"

\* C4: rendering fails only on a STANDARD card whose suit or rank is None,
\* and no card reached by a successful constructor and setter calls is one:
\* rendering always returns.
C4_RenderNeverFails ==
    op = "__str__" =>
        /\ InvalidState
             => (before.card_type = STANDARD
                  /\ (before.suit = None \/ before.rank = None))
        /\ Ok

\* C5: setting the type of a STANDARD card to JOKER or GUARANTEE succeeds,
\* and afterwards the type is the new one and suit and rank are None.
C5_LeavingStandardClears ==
    (op = "card_type" /\ before.card_type = STANDARD /\ args[1] \in NonStandard)
        => (Ok /\ card = SpecialCard(args[1]))

C5_Witness ==
    /\ op = "card_type"
    /\ before = StandardCard(HEART, ACE)
    /\ args = << JOKER >>
    /\ card = SpecialCard(JOKER)

\* C6: the constructor rejects STANDARD with a None suit or rank, and JOKER
\* or GUARANTEE with a suit or rank that is not None, with the setters'
\* error, and yields no card.
C6_ConstructRejectsInconsistent ==
    (op = "__init__"
        /\ \/ args[1] = STANDARD /\ (args[2] = None \/ args[3] = None)
           \/ args[1] \in NonStandard /\ (args[2] # None \/ args[3] # None))
        => (InvalidAttribute /\ card = NoCard)

C6_Witness ==
    /\ op = "__init__"
    /\ args = << STANDARD, HEART, None >>
    /\ InvalidAttribute
    /\ card = NoCard

\* C7: a card type that is none of STANDARD, JOKER and GUARANTEE is rejected
\* by the constructor, whatever the suit and rank, and by the card_type
\* setter on an existing card.
C7_UnknownTypeRejected ==
    (op \in {"__init__", "card_type"} /\ args[1] \notin {STANDARD, JOKER, GUARANTEE})
        => /\ InvalidAttribute
           /\ result.at = "card_type"
           /\ op = "__init__" => card = NoCard

C7_Witness ==
    /\ op = "card_type"
    /\ before # NoCard
    /\ args = << Str("joker") >>
    /\ InvalidAttribute

\* C8: the suit setter fails when the card is STANDARD and the value None,
\* when the card is not STANDARD and the value not None, and when the value
\* is no member of the suit enum; in every other case it succeeds and the
\* suit is the value.  The rank setter does the same with the rank enum.
SetterFails(members) ==
    \/ before.card_type = STANDARD /\ args[1] = None
    \/ before.card_type # STANDARD /\ args[1] # None
    \/ args[1] \notin members

C9_FailureChangesNothing ==
    (op \in {"card_type", "suit", "rank", "__str__"} /\ ~Ok) => card = before

C9_Witness ==
    /\ op = "suit"
    /\ args = << Str("heart") >>
    /\ before = StandardCard(CLUB, ACE)
    /\ ~Ok
    /\ card = before

\* C10: a successful suit setter leaves card_type and rank unchanged, a
\* successful rank setter leaves card_type and suit unchanged, setting the
\* type to STANDARD succeeds on any card and leaves suit and rank unchanged,
\* and rendering changes no field.
C10_SettersTouchOwnField ==
    /\ (op = "suit" /\ Ok)
           => (card.card_type = before.card_type /\ card.rank = before.rank)
    /\ (op = "rank" /\ Ok)
           => (card.card_type = before.card_type /\ card.suit = before.suit)
    /\ (op = "card_type" /\ args[1] = STANDARD)
           => (Ok /\ card.suit = before.suit /\ card.rank = before.rank)
    /\ op = "__str__" => card = before

C10_Witness ==
    /\ op = "card_type"
    /\ args = << STANDARD >>
    /\ before = StandardCard(DIAMOND, KING)
    /\ card = before

====
